---- MODULE Spec2Model ----
(***************************************************************************)
(* A model of the Mozilla FTP watcher bot.                                 *)
(*                                                                         *)
(* The repository holds two generations of the same program.  main.rs is   *)
(* self-contained (its own Data poller, command handler, invitation        *)
(* handler and main loop); matrix.rs and mozilla.rs are the later modules  *)
(* (MozData poller, allow-list aware handlers, session storage).  The      *)
(* variable `build` chosen in Init says which generation runs:             *)
(*    "main"    - the code of main.rs only                                 *)
(*    "modules" - mozilla.rs / matrix.rs, driven by the main loop          *)
(* Names (directory entries) are sequences of one-character strings so     *)
(* that trimming, substring tests and "<cand>/<x>" formatting are          *)
(* computed, not assumed.                                                  *)
(***************************************************************************)
EXTENDS Integers, Sequences, FiniteSets, TLC

VARIABLES
    build,      \* which generation of the code runs
    src,        \* the Source's configuration: filter, query_subdirs
    data,       \* the Source's snapshot (field `data`)
    poll,       \* the poll in progress: pc, candidates, tasks, joined, outputs
    orphans,    \* sub-listing fetches still running after their poll returned
    ret,        \* observation: the last return of fetch_upstream_and_compare
    cfg,        \* BotConfig: accept_commands_from, ignore_own_messages,
                \* autojoin, and whether a session db directory exists
    roomState,  \* room.state() of every room the client knows
    rooms,      \* SharedState.rooms, the watch registry
    file,       \* the content of <db_path>/watched_rooms
    h,          \* the on_room_message call in progress, or the last event
                \* it ignored
    main,       \* main()'s loop: pc, source index, room ids still to notify;
                \* observations: the registry copy of the fan-out (snap), the
                \* rooms it has called room.send for (sent), the registry
                \* when the tick began (atWake), the error that ended main
                \* (err)
    expected,   \* observation: rooms that got a !watch and no !leave since
    failed,     \* observation: a send, leave or write of a handler failed
    lock,       \* who holds the Mutex of SharedState.rooms at an await
    stale,      \* observation: the last fs::write of watched_rooms failed
    task,       \* per room: the task on_stripped_state_member spawned
    backend,    \* the SessionStorage variant of the configuration
    sync,       \* login_and_sync: pc, logged_in, the client's session
                \* (cred), the token of sync_settings, the handlers it has
                \* registered, the spawned client.sync task (stream);
                \* observations: the outcome of the last sync_once (last),
                \* the error it returned with (cause), a failed login
                \* (loginErr), what happened since the last invalid-token
                \* answer (reauth, relogin, rebuilt), events handed to the
                \* handlers (dispatched), the token the stream was spawned
                \* with (from), an event from before that token handed to
                \* a handler (early)
    store,      \* the persisted session: the session file or the items of
                \* the secret service
    db          \* the sqlite store directory db_path

pollVars == <<src, data, poll, orphans, ret>>

cmdVars == <<cfg, roomState, rooms, file, h, main, expected, failed, lock,
             stale>>

syncVars == <<backend, sync, store, db>>

vars == <<build, src, data, poll, orphans, ret,
          cfg, roomState, rooms, file, h, main, expected, failed, task,
          backend, sync, store, db, lock, stale>>

-----------------------------------------------------------------------------
(* Bounds *)

\* how many distinct anchor texts a top-level listing can hold
MaxTop == 3
\* how many distinct anchor texts a sub-listing can hold
MaxSub == 1
\* how many events of the sync stream are followed
MaxDispatch == 2

-----------------------------------------------------------------------------
(* Names and the string functions the poller uses *)

Builds == {"main", "modules"}

Min(a, b) == IF a < b THEN a ELSE b

\* anchor texts as the listing page shows them
TopUniverse ==
    << <<"e", "/">>, <<"o", "/">>, <<".", ".">>, <<"o", "e">>, <<"b">> >>

SubUniverse ==
    << <<"e", "/">>, <<".", ".">>, <<"b">>, <<"o", "/">> >>

TopRaw == { TopUniverse[i] : i \in 1..Min(MaxTop, Len(TopUniverse)) }

SubRaw == { SubUniverse[i] : i \in 1..Min(MaxSub, Len(SubUniverse)) }

\* the filter string of a Source that has one ("esr", "candidates")
FilterStr == <<"e">>

NoFilter == [some |-> FALSE, val |-> <<>>]

Filters == { NoFilter, [some |-> TRUE, val |-> FilterStr] }

DotDot == <<".", ".">>

RECURSIVE TrimEndSlash(_)
TrimEndSlash(s) ==
    IF Len(s) > 0 /\ s[Len(s)] = "/"
        THEN TrimEndSlash(SubSeq(s, 1, Len(s) - 1))
        ELSE s

\* str::contains
Contains(s, f) ==
    \E i \in 1..(Len(s) - Len(f) + 1) : SubSeq(s, i, i + Len(f) - 1) = f

\* format!("{}/{}", cand, x)
Slash(cand, x) == cand \o <<"/">> \o x

PassesFilter(f, x) == f.some => Contains(x, f.val)

\* query_url with the name filter left out of the top-level pass
Candidates_NoFilter(b, f, listing) ==
    { x \in { TrimEndSlash(r) : r \in listing } : b = "modules" => x # DotDot }

\* the candidate set query_url builds from the top-level listing
Candidates(b, f, listing) ==
    { x \in { TrimEndSlash(r) : r \in listing } :
        /\ (b = "modules" => x # DotDot)
        /\ PassesFilter(f, x) }

\* the set query_subdir returns for one candidate
SubdirCandidates(cand, listing) ==
    { Slash(cand, x) : x \in { y \in listing : y # DotDot } }

\* fetch_upstream_and_compare returning the whole answer instead of the
\* difference
Compare_NoDiff(b, old, answer) ==
    IF b = "modules" /\ old = {} THEN {} ELSE answer

\* the delta fetch_upstream_and_compare returns
Compare(b, old, answer) ==
    IF b = "modules" /\ old = {} THEN {} ELSE answer \ old

\* the snapshot fetch_upstream_and_compare stores
NewSnapshot(answer, res) == answer

-----------------------------------------------------------------------------
(* Rooms, users and commands *)

Rooms == {"r1", "r2"}

\* client.user_id(), a user on the allow-list, a user not on it
Bot == "bot"

Users == {Bot, "alice", "mallory"}

Bodies == {"!ping", "!leave", "!watch", "hi"}

\* the sources array of main(), by index
SourceIds == 1..2

DefaultCfg == [allow |-> {}, ignore_own_messages |-> TRUE, autojoin |-> TRUE,
               durable |-> FALSE]

\* the configurations a build can be started with; main.rs has neither an
\* allow-list nor a session db
Cfgs(b) ==
    IF b = "main"
        THEN [allow : {{}}, ignore_own_messages : BOOLEAN, autojoin : BOOLEAN,
              durable : {FALSE}]
        ELSE [allow : {{}, {"alice"}}, ignore_own_messages : BOOLEAN,
              autojoin : BOOLEAN, durable : BOOLEAN]

HIdle == [pc |-> "idle", room |-> "r1", sender |-> Bot, body |-> "hi",
          buf |-> {}]

MainSleep == [pc |-> "sleep", i |-> 1, roomids |-> {}, snap |-> {},
              sent |-> {}, atWake |-> {}, err |-> "none"]

\* the command and main-loop state after SharedState::new
CmdStart ==
    /\ rooms = {}
    /\ file = {}
    /\ h = HIdle
    /\ main = MainSleep
    /\ expected = {}
    /\ failed = FALSE
    /\ lock = "free"
    /\ stale = FALSE

\* accept_commands_from.is_empty() || accept_commands_from.contains(sender)
Trusted(u) == cfg.allow = {} \/ u \in cfg.allow

\* the commands a build's on_room_message knows
Known(b) ==
    IF b = "main" THEN {"!leave", "!watch"}
                  ELSE {"!ping", "!leave", "!watch"}

\* on_room_message gets past its guards and sends a reply
Accepts(r, u, body) ==
    /\ roomState[r] = "joined"
    /\ ~(cfg.ignore_own_messages /\ u = Bot)
    /\ build = "modules" => Trusted(u)
    /\ body \in Known(build)

Alive == main.pc # "exited"

Unlock_Kept(holder) == holder

\* rooms.lock().unwrap() is a temporary of the statement that copies,
\* inserts, removes or serializes: the guard is dropped at the end of that
\* statement, before the next await
Unlock(holder) == "free"

\* enum SessionStorage, as far as a build has it
Backends(b) ==
    IF b = "main" THEN {"Ephemeral"}
                  ELSE {"Ephemeral", "Plain", "SecretService"}

\* session_storage.get_session_db() is Some
HasDb(be) == be # "Ephemeral"

\* no session is persisted / the session a previous run persisted
NoSession == [cred |-> "none", token |-> "none"]
OldSession == [cred |-> "old", token |-> "t0"]

\* the sync token restore_*_session returns for a readable session:
\* restore_ss_session looks the optional items up by the attribute "name",
\* store_ss_session files them under "matrix_mozilla_bot", so it finds none
RestoredToken(be, st) == IF be = "Plain" THEN st.token ELSE "none"

Persisted_NoToken(cred, tok) == [cred |-> cred, token |-> "none"]

\* what store_*_session writes: the client's session and the sync token
Persisted(cred, tok) == [cred |-> cred, token |-> tok]

\* the handlers login_and_sync registers
Handlers(c) ==
    IF c.autojoin THEN {"on_stripped_state_member", "on_room_message"}
                  ELSE {"on_room_message"}

\* the errors of sync_once by the branch of the match they take
Transient == {"network", "timeout"}

StreamFrom_Start(tok) == "none"

\* the token client.sync is spawned with: that of sync_settings, which the
\* successful sync_once set to response.next_batch
StreamFrom(tok) == tok

\* login_and_sync at its first line
SyncStart ==
    [pc |-> "build", logged_in |-> FALSE, cred |-> "none", token |-> "none",
     handlers |-> {}, stream |-> "off", streamErr |-> "none",
     last |-> "none", cause |-> "none", loginErr |-> FALSE,
     reauth |-> FALSE, relogin |-> FALSE, rebuilt |-> FALSE,
     dispatched |-> 0, from |-> "none", early |-> FALSE]

\* login_and_sync has returned the client of a first run without a session
\* store
SyncDone ==
    /\ backend = "Ephemeral"
    /\ store = NoSession
    /\ db = "absent"
    /\ sync = [SyncStart EXCEPT !.pc = "streaming", !.logged_in = TRUE,
                                !.cred = "new", !.token = "t1",
                                !.handlers = Handlers(cfg),
                                !.stream = "running", !.last = "ok",
                                !.relogin = TRUE, !.from = "t1"]

\* let mut delay = 2
InitialDelay == 2

\* the bound of `if delay > 3600`
BackoffCap == 3600

NoTask == [pc |-> "none", kind |-> "none", inviter |-> Bot, delay |-> 0,
           n |-> 0, last |-> 0, slept |-> 0, outcome |-> "none",
           said |-> "none"]

\* what the task prints when its retry loop is over: the join branch ends
\* with println!("Successfully joined room ..") after the loop, the reject
\* branch prints nothing there
SaidAtEnd(kind, outcome) == IF kind = "join" THEN "joined" ELSE "none"

-----------------------------------------------------------------------------
(* The poller *)

Idle == [pc |-> "idle", candidates |-> {}, tasks |-> <<>>, joined |-> {},
         outputs |-> {}]

NoRet == [kind |-> "none", first |-> FALSE, res |-> {}, answer |-> {},
          before |-> {}, lastAnswer |-> {}, prevAnswer |-> {},
          seen |-> FALSE, dropped |-> FALSE, afterFail |-> FALSE]

Running == [st |-> "running", val |-> {}]

\* fetch_upstream_and_compare after query_url returned Ok(answer)
Finish(answer, dropped) ==
    LET res == Compare(build, data, answer) IN
    /\ data' = NewSnapshot(answer, res)
    /\ ret' = [kind |-> "ok", first |-> ~ret.seen, res |-> res,
               answer |-> answer, before |-> data,
               lastAnswer |-> answer, prevAnswer |-> ret.lastAnswer,
               seen |-> TRUE, dropped |-> dropped,
               afterFail |-> IF poll.pc = "idle" THEN ret.kind = "err"
                                                 ELSE ret.afterFail]
    /\ poll' = Idle

\* fetch_upstream_and_compare after query_url returned Err
Fail(stillRunning) ==
    /\ ret' = [NoRet EXCEPT !.kind = "err", !.seen = ret.seen,
                             !.lastAnswer = ret.lastAnswer]
    /\ poll' = Idle
    /\ orphans' = orphans \cup stillRunning
    /\ UNCHANGED data

\* the top-level listing cannot be fetched
PollFetchFail ==
    /\ poll.pc = "idle"
    /\ Fail({})
    /\ UNCHANGED <<build, syncVars, task, src, cmdVars>>

\* the top-level listing is fetched; without query_subdirs the poll ends here
PollFetch ==
    /\ poll.pc = "idle"
    /\ \E listing \in SUBSET TopRaw :
         LET cands == Candidates(build, src.filter, listing)
             dropped == \E r \in listing :
                           ~PassesFilter(src.filter, TrimEndSlash(r))
         IN
         IF src.query_subdirs /\ cands # {}
            THEN /\ poll' = [pc |-> "joining", candidates |-> cands,
                             tasks |-> [c \in cands |-> Running],
                             joined |-> {}, outputs |-> {}]
                 /\ ret' = [NoRet EXCEPT !.seen = ret.seen,
                                          !.lastAnswer = ret.lastAnswer,
                                          !.dropped = dropped,
                                          !.afterFail = (ret.kind = "err")]
                 /\ UNCHANGED data
            ELSE Finish(cands, dropped)
    /\ UNCHANGED <<build, syncVars, task, src, orphans, cmdVars>>

\* a spawned query_subdir task ends, with a listing or with an error
SubdirDone ==
    /\ poll.pc = "joining"
    /\ \E c \in poll.candidates :
         /\ poll.tasks[c].st = "running"
         /\ \/ \E listing \in SUBSET SubRaw :
                 poll' = [poll EXCEPT !.tasks[c] =
                            [st |-> "ok", val |-> SubdirCandidates(c, listing)]]
            \/ poll' = [poll EXCEPT !.tasks[c] = [st |-> "err", val |-> {}]]
    /\ UNCHANGED <<build, syncVars, task, src, data, orphans, ret, cmdVars>>

\* the join loop takes the next task's result
JoinStep ==
    /\ poll.pc = "joining"
    /\ \E c \in poll.candidates \ poll.joined :
         /\ poll.tasks[c].st # "running"
         /\ IF poll.tasks[c].st = "err"
               THEN Fail({ d \in poll.candidates :
                             poll.tasks[d].st = "running" })
               ELSE LET out == poll.outputs \cup poll.tasks[c].val IN
                    IF poll.joined \cup {c} = poll.candidates
                       THEN /\ Finish(out, ret.dropped)
                            /\ UNCHANGED orphans
                       ELSE /\ poll' = [poll EXCEPT !.joined = @ \cup {c},
                                                    !.outputs = out]
                            /\ UNCHANGED <<data, ret, orphans>>
    /\ UNCHANGED <<build, syncVars, task, src, cmdVars>>

\* a fetch whose poll has already returned ends; nobody reads its result
OrphanDone ==
    /\ \E c \in orphans : orphans' = orphans \ {c}
    /\ UNCHANGED <<build, syncVars, task, src, data, poll, ret, cmdVars>>

\* the poller's state after MozData::new / Data::new
PollStart ==
    /\ data = {}
    /\ poll = Idle
    /\ orphans = {}
    /\ ret = NoRet

PollInit ==
    /\ build \in Builds
    /\ src \in [filter : Filters, query_subdirs : BOOLEAN]
    /\ PollStart
    /\ CmdStart
    /\ cfg = DefaultCfg
    /\ roomState = [r \in Rooms |-> "none"]
    /\ task = [r \in Rooms |-> NoTask]
    /\ SyncDone

PollNext ==
    \/ PollFetchFail
    \/ PollFetch
    \/ SubdirDone
    \/ JoinStep
    \/ OrphanDone

SpecPoll == PollInit /\ [][PollNext]_vars

-----------------------------------------------------------------------------
(* on_room_message *)

\* the event handler is called for a message event; its guards run up to the
\* first await
CmdDispatch ==
    /\ Alive
    /\ h.pc = "idle"
    /\ \E r \in Rooms, u \in Users, body \in Bodies :
         /\ h' = [pc |-> IF Accepts(r, u, body) THEN "send" ELSE "idle",
                  room |-> r, sender |-> u, body |-> body, buf |-> {}]
         /\ expected' =
              IF roomState[r] = "joined" /\ Trusted(u)
                   /\ ~(cfg.ignore_own_messages /\ u = Bot)
                 THEN CASE body = "!watch" -> expected \cup {r}
                        [] body = "!leave" -> expected \ {r}
                        [] OTHER -> expected
                 ELSE expected
    /\ UNCHANGED <<build, syncVars, task, pollVars, cfg, roomState, rooms,
                   file, main, failed, lock, stale>>

CacheStep_Skip(newRooms) == h' = HIdle

\* update_room_cache up to its await: the registry is serialized under the
\* lock when a session db directory exists
CacheStep(newRooms) ==
    IF build = "modules" /\ cfg.durable
        THEN h' = [h EXCEPT !.pc = "write", !.buf = newRooms]
        ELSE h' = HIdle

\* room.send(reply) returns
CmdSend ==
    /\ Alive
    /\ h.pc = "send"
    /\ \/ /\ h.body = "!ping"
          /\ h' = HIdle
          /\ UNCHANGED <<rooms, failed, lock>>
       \/ /\ h.body = "!leave"
          /\ h' = [h EXCEPT !.pc = "leave"]
          /\ UNCHANGED <<rooms, failed, lock>>
       \/ /\ h.body = "!watch"
          /\ lock = "free"
          /\ rooms' = rooms \cup {h.room}
          /\ CacheStep(rooms \cup {h.room})
          /\ lock' = Unlock("handler")
          /\ UNCHANGED failed
       \/ \* the send failed: `?` returns the error
          /\ h' = HIdle
          /\ failed' = TRUE
          /\ UNCHANGED <<rooms, lock>>
    /\ UNCHANGED <<build, syncVars, task, pollVars, cfg, roomState, file,
                   main, expected, stale>>

\* room.leave() returns
CmdLeave ==
    /\ Alive
    /\ h.pc = "leave"
    /\ \/ /\ roomState' = [roomState EXCEPT ![h.room] = "left"]
          /\ h' = IF build = "modules" THEN [h EXCEPT !.pc = "left"] ELSE HIdle
          /\ UNCHANGED failed
       \/ \* the leave failed: `?` returns the error
          /\ h' = HIdle
          /\ failed' = TRUE
          /\ UNCHANGED roomState
    /\ UNCHANGED <<build, syncVars, task, pollVars, cfg, rooms, file, main,
                   expected, lock, stale>>

\* matrix.rs only: the room is taken out of the registry after the leave
CmdRemove ==
    /\ Alive
    /\ h.pc = "left"
    /\ lock = "free"
    /\ rooms' = rooms \ {h.room}
    /\ CacheStep(rooms \ {h.room})
    /\ lock' = Unlock("handler")
    /\ UNCHANGED <<build, syncVars, task, pollVars, cfg, roomState, file,
                   main, expected, failed, stale>>

\* fs::write of watched_rooms returns
CmdWrite ==
    /\ Alive
    /\ h.pc = "write"
    /\ \/ file' = h.buf /\ stale' = FALSE /\ UNCHANGED failed
       \/ \* the write failed: `?` returns the error
          failed' = TRUE /\ stale' = TRUE /\ UNCHANGED file
    /\ h' = HIdle
    /\ UNCHANGED <<build, syncVars, task, pollVars, cfg, roomState, rooms,
                   main, expected, lock>>

-----------------------------------------------------------------------------
(* main(): the polling loop and the notification fan-out *)

LastSource == CHOOSE i \in SourceIds : \A j \in SourceIds : j <= i

\* the loop goes on to the next source, or to the long sleep
Advance(i) ==
    IF i = LastSource THEN MainSleep
                      ELSE [MainSleep EXCEPT !.pc = "poll", !.i = i + 1,
                                             !.atWake = main.atWake]

\* a sleep of the loop ends and a tick begins
MainWake ==
    /\ main.pc = "sleep"
    /\ main' = [MainSleep EXCEPT !.pc = "poll", !.atWake = rooms]
    /\ UNCHANGED <<build, syncVars, task, pollVars, cfg, roomState, rooms,
                   file, h, expected, failed, lock, stale>>

\* source.fetch_upstream_and_compare().await? returns for source i (the
\* poller itself is the subject of SpecPoll; here its result is an input); on
\* a non-empty delta the registry is copied under the lock
MainPoll ==
    /\ main.pc = "poll"
    /\ \/ \* Err: `?` returns from main, the process ends
          /\ main' = [main EXCEPT !.pc = "exited", !.err = "poll"]
          /\ UNCHANGED lock
       \/ \* an empty delta
          /\ main' = Advance(main.i)
          /\ UNCHANGED lock
       \/ \* a non-empty delta
          /\ lock = "free"
          /\ main' = [main EXCEPT !.pc = "send", !.roomids = rooms,
                                  !.snap = rooms]
          /\ lock' = Unlock("main")
    /\ UNCHANGED <<build, syncVars, task, pollVars, cfg, roomState, rooms,
                   file, h, expected, failed, stale>>

\* the fan-out takes the next room id: a joined room is sent the
\* notification, any other is skipped
MainSend ==
    /\ main.pc = "send"
    /\ \E r \in main.roomids :
         LET rest == main.roomids \ {r}
         IN  \/ /\ roomState[r] # "joined"
                /\ main' = [main EXCEPT !.roomids = rest]
             \/ /\ roomState[r] = "joined"
                /\ main' = [main EXCEPT !.roomids = rest,
                                        !.sent = @ \cup {r}]
             \/ \* room.send(..).await? fails: main returns the error
                /\ roomState[r] = "joined"
                /\ main' = [main EXCEPT !.pc = "exited", !.err = "send",
                                        !.sent = @ \cup {r}]
    /\ UNCHANGED <<build, syncVars, task, pollVars, cfg, roomState, rooms,
                   file, h, expected, failed, lock, stale>>

\* the fan-out's `for roomid in roomids` is through
MainSendDone ==
    /\ main.pc = "send"
    /\ main.roomids = {}
    /\ main' = Advance(main.i)
    /\ UNCHANGED <<build, syncVars, task, pollVars, cfg, roomState, rooms,
                   file, h, expected, failed, lock, stale>>

CmdInit ==
    /\ build \in Builds
    /\ cfg \in { c \in Cfgs(build) : c.autojoin }
    /\ roomState \in [Rooms -> {"joined", "none"}]
    /\ CmdStart
    /\ src = [filter |-> NoFilter, query_subdirs |-> FALSE]
    /\ PollStart
    /\ task = [r \in Rooms |-> NoTask]
    /\ SyncDone

CmdNext ==
    \/ CmdDispatch
    \/ CmdSend
    \/ CmdLeave
    \/ CmdRemove
    \/ CmdWrite
    \/ MainWake
    \/ MainPoll
    \/ MainSend
    \/ MainSendDone

SpecCmd == CmdInit /\ [][CmdNext]_vars

-----------------------------------------------------------------------------
(* on_stripped_state_member *)

\* the spawned task accepting every invitation
Decide_AlwaysJoin(b, u) == "join"

\* the branch the spawned task takes for an invitation sent by u
Decide(b, u) ==
    IF b = "main" \/ cfg.allow = {} \/ u \in cfg.allow THEN "join" ELSE "reject"

\* a linear instead of an exponential step
Doubled_Add(d) == d + 2

\* delay *= 2
Doubled(d) == d * 2

\* a give-up test against twice the cap
GiveUp_Late(d) == d > 2 * BackoffCap

\* if delay > 3600 { break }
GiveUp(d) == d > BackoffCap

\* the errors room.join() / room.leave() can return; the loop reads none
JoinErrors == {"forbidden", "network"}

\* a stripped member event of an invited room is handled: with autojoin the
\* handler is registered, and for an event about the bot itself it spawns the
\* join task or (matrix.rs) the reject task
InviteArrives ==
    /\ \E r \in Rooms, u \in Users \ {Bot}, target \in {Bot, "alice"} :
         /\ roomState[r] # "joined"
         /\ task[r].pc \in {"none", "done", "ignored"}
         /\ roomState' = [roomState EXCEPT ![r] = "invited"]
         /\ task' = [task EXCEPT ![r] =
              IF target # Bot THEN task[r]
              ELSE IF ~cfg.autojoin THEN [NoTask EXCEPT !.pc = "ignored",
                                                        !.inviter = u]
              ELSE [NoTask EXCEPT !.pc = "try", !.kind = Decide(build, u),
                                  !.inviter = u, !.delay = InitialDelay]]
    /\ UNCHANGED <<build, syncVars, pollVars, cfg, rooms, file, h, main,
                   expected, failed, lock, stale>>

\* room.join() or room.leave() of the task returns
InviteAttempt ==
    /\ \E r \in Rooms :
         /\ task[r].pc = "try"
         /\ \/ /\ task' = [task EXCEPT
                           ![r].pc = "done", ![r].outcome = "ok",
                           ![r].said = SaidAtEnd(task[r].kind, "ok")]
               /\ roomState' = [roomState EXCEPT ![r] =
                     IF task[r].kind = "join" THEN "joined" ELSE "left"]
            \/ /\ \E err \in JoinErrors :
                     task' = [task EXCEPT ![r].pc = "sleep"]
               /\ UNCHANGED roomState
    /\ UNCHANGED <<build, syncVars, pollVars, cfg, rooms, file, h, main,
                   expected, failed, lock, stale>>

\* sleep(delay) of the task ends; the delay doubles and the chain is given
\* up once it has passed the cap
InviteSleep ==
    /\ \E r \in Rooms :
         /\ task[r].pc = "sleep"
         /\ LET d == Doubled(task[r].delay) IN
            task' = [task EXCEPT ![r] =
                [@ EXCEPT !.n = @ + 1, !.last = task[r].delay,
                          !.slept = @ + task[r].delay, !.delay = d,
                          !.pc = IF GiveUp(d) THEN "done" ELSE "try",
                          !.outcome = IF GiveUp(d) THEN "gaveup" ELSE "none",
                          !.said = IF GiveUp(d)
                                      THEN SaidAtEnd(task[r].kind, "gaveup")
                                      ELSE "none"]]
    /\ UNCHANGED <<build, syncVars, pollVars, cfg, roomState, rooms, file, h,
                   main, expected, failed, lock, stale>>

InviteInit ==
    /\ build \in Builds
    /\ cfg \in { c \in Cfgs(build) : ~c.durable /\ c.ignore_own_messages }
    /\ roomState = [r \in Rooms |-> "none"]
    /\ task = [r \in Rooms |-> NoTask]
    /\ SyncDone
    /\ CmdStart
    /\ src = [filter |-> NoFilter, query_subdirs |-> FALSE]
    /\ PollStart

InviteNext ==
    \/ InviteArrives
    \/ InviteAttempt
    \/ InviteSleep

SpecInvite == InviteInit /\ [][InviteNext]_vars

-----------------------------------------------------------------------------
(* login_and_sync *)

\* Client::builder()...build().await?
SyncBuild ==
    /\ sync.pc = "build"
    /\ \/ /\ sync' = [sync EXCEPT
                         !.pc = IF build = "main" THEN "login" ELSE "restore"]
          /\ db' = IF HasDb(backend) /\ db = "absent" THEN "fresh" ELSE db
       \/ /\ sync' = [sync EXCEPT !.pc = "failed", !.cause = "build"]
          /\ UNCHANGED db
    /\ UNCHANGED <<build, pollVars, cmdVars, task, backend, store>>

\* matrix.rs: the match on session_storage that restores a session, and the
\* token it hands to sync_settings
SyncRestore ==
    /\ sync.pc = "restore"
    /\ \/ \* restore_*_session returned Ok(sync_token)
          /\ backend # "Ephemeral"
          /\ store # NoSession
          /\ sync' = [sync EXCEPT !.pc = "fetch", !.logged_in = TRUE,
                                  !.cred = store.cred,
                                  !.token = RestoredToken(backend, store)]
       \/ \* Ephemeral, or the restore returned Err
          /\ sync' = [sync EXCEPT !.pc = "login"]
    /\ UNCHANGED <<build, pollVars, cmdVars, task, backend, store, db>>

LoginFailed_Retry(s) == [s EXCEPT !.pc = "login"]

\* login(..).await? / login_username(..).send().await? fails: the error is
\* returned
LoginFailed(s) == [s EXCEPT !.pc = "failed", !.cause = "login"]

\* the login call returns
SyncLogin ==
    /\ sync.pc = "login"
    /\ \/ sync' = [sync EXCEPT !.pc = "fetch", !.logged_in = TRUE,
                               !.cred = "new", !.relogin = TRUE]
       \/ sync' = [LoginFailed(sync) EXCEPT !.loginErr = TRUE]
    /\ UNCHANGED <<build, pollVars, cmdVars, task, backend, store, db>>

OnTransient_Relogin(s) == [s EXCEPT !.pc = "login", !.logged_in = FALSE]

\* matrix.rs: the None and ConnectionTimeout branches fall through to the
\* next turn of the loop
OnTransient(s) == s

\* client.sync_once(sync_settings) returns
SyncFetch ==
    /\ sync.pc = "fetch"
    /\ \/ \* Ok(response): its events go to the handlers registered so far
          sync' = [sync EXCEPT
                     !.token = "t1", !.last = "ok", !.reauth = FALSE,
                     !.early = @ \/ sync.handlers # {},
                     !.pc = IF backend = "Ephemeral" THEN "register"
                                                     ELSE "store"]
       \/ \* main.rs: `?` returns whatever error there is
          /\ build = "main"
          /\ \E k \in Transient \cup {"limit", "token", "forbidden", "other"} :
               sync' = [sync EXCEPT !.pc = "failed", !.cause = "sync",
                                    !.last = k]
       \/ \* None / ConnectionTimeout
          /\ build = "modules"
          /\ \E k \in Transient :
               sync' = [OnTransient(sync) EXCEPT !.last = k,
                                                !.reauth = FALSE]
       \/ \* LimitExceeded
          /\ build = "modules"
          /\ sync' = [sync EXCEPT !.pc = "sleep", !.last = "limit",
                                  !.reauth = FALSE]
       \/ \* UnknownToken / MissingToken
          /\ build = "modules"
          /\ sync' = [sync EXCEPT
                        !.logged_in = FALSE, !.token = "none",
                        !.last = "token", !.reauth = TRUE,
                        !.relogin = FALSE, !.rebuilt = FALSE,
                        !.pc = IF HasDb(backend) THEN "wipe" ELSE "rebuild"]
       \/ \* Forbidden
          /\ build = "modules"
          /\ sync' = [sync EXCEPT !.pc = "login", !.logged_in = FALSE,
                                  !.last = "forbidden", !.reauth = FALSE]
       \/ \* Some(_)
          /\ build = "modules"
          /\ sync' = [sync EXCEPT !.pc = "failed", !.cause = "sync",
                                  !.last = "other", !.reauth = FALSE]
    /\ UNCHANGED <<build, pollVars, cmdVars, task, backend, store, db>>

\* sleep(retry_after_ms.unwrap_or(5 s)) is over
SyncSleep ==
    /\ sync.pc = "sleep"
    /\ sync' = [sync EXCEPT !.pc = "fetch"]
    /\ UNCHANGED <<build, pollVars, cmdVars, task, backend, store, db>>

\* tokio::fs::remove_dir_all(&db.db_path).await? returns; watched_rooms
\* lives in that directory, the session file of the Plain backend
\* (session.session_path) does or does not, as configured; the items of the
\* secret service do not
SyncWipe ==
    /\ sync.pc = "wipe"
    /\ \/ /\ db' = "absent"
          /\ file' = {}
          /\ store' \in IF backend = "Plain" THEN {store, NoSession}
                                              ELSE {store}
          /\ sync' = [sync EXCEPT !.pc = "rebuild"]
       \/ /\ sync' = [sync EXCEPT !.pc = "failed", !.cause = "wipe"]
          /\ UNCHANGED <<db, file, store>>
    /\ UNCHANGED <<build, pollVars, cfg, roomState, rooms, h, main, expected,
                   failed, task, backend, lock, stale>>

\* client = client_builder.build().await? in the invalid-token branch
SyncRebuild ==
    /\ sync.pc = "rebuild"
    /\ \/ /\ sync' = [sync EXCEPT !.pc = "login", !.cred = "none",
                                  !.rebuilt = TRUE]
          /\ db' = IF HasDb(backend) THEN "fresh" ELSE db
       \/ /\ sync' = [sync EXCEPT !.pc = "failed", !.cause = "build"]
          /\ UNCHANGED db
    /\ UNCHANGED <<build, pollVars, cmdVars, task, backend, store>>

\* store_plain_session / store_ss_session returns; a failed fs::write can
\* leave an unreadable file, a failed store_ss_session the sync_token item
\* without the access token that belongs to it
SyncStore ==
    /\ sync.pc = "store"
    /\ \/ /\ store' = Persisted(sync.cred, sync.token)
          /\ sync' = [sync EXCEPT !.pc = "register"]
       \/ /\ sync' = [sync EXCEPT !.pc = "failed", !.cause = "persist"]
          /\ \/ UNCHANGED store
             \/ backend = "Plain" /\ store' = NoSession
             \/ /\ backend = "SecretService"
                /\ store # NoSession
                /\ store' = [store EXCEPT !.token = sync.token]
    /\ UNCHANGED <<build, pollVars, cmdVars, task, backend, db>>

\* the handlers are added and client.sync is spawned; login_and_sync returns
\* the client
SyncRegister ==
    /\ sync.pc = "register"
    /\ sync' = [sync EXCEPT !.pc = "streaming", !.handlers = Handlers(cfg),
                            !.stream = "running",
                            !.from = StreamFrom(sync.token)]
    /\ UNCHANGED <<build, pollVars, cmdVars, task, backend, store, db>>

\* the sync task hands an event to the registered handlers
StreamDispatch ==
    /\ sync.stream = "running"
    /\ sync.dispatched < MaxDispatch
    /\ sync' = [sync EXCEPT !.dispatched = @ + 1,
                            !.early = @ \/ sync.from # sync.token]
    /\ UNCHANGED <<build, pollVars, cmdVars, task, backend, store, db>>

\* a sync request of the spawned task fails: client.sync returns the error,
\* the task ends and its result is dropped
StreamError ==
    /\ sync.stream = "running"
    /\ \E k \in {"token", "other"} :
         sync' = [sync EXCEPT !.stream = "ended", !.streamErr = k]
    /\ UNCHANGED <<build, pollVars, cmdVars, task, backend, store, db>>

SyncInit ==
    /\ build \in Builds
    /\ backend \in Backends(build)
    /\ store \in IF backend = "Ephemeral" THEN {NoSession}
                                          ELSE {NoSession, OldSession}
    /\ db \in IF HasDb(backend) THEN {"absent", "old"} ELSE {"absent"}
    /\ sync = SyncStart
    /\ cfg \in { c \in Cfgs(build) :
                    c.allow = {} /\ c.ignore_own_messages /\ ~c.durable }
    /\ roomState = [r \in Rooms |-> "none"]
    /\ task = [r \in Rooms |-> NoTask]
    /\ CmdStart
    /\ src = [filter |-> NoFilter, query_subdirs |-> FALSE]
    /\ PollStart

SyncNext ==
    \/ SyncBuild
    \/ SyncRestore
    \/ SyncLogin
    \/ SyncFetch
    \/ SyncSleep
    \/ SyncWipe
    \/ SyncRebuild
    \/ SyncStore
    \/ SyncRegister
    \/ StreamDispatch
    \/ StreamError

SpecSync == SyncInit /\ [][SyncNext]_vars

\* the runtime keeps running the tasks that can take a step
SpecSyncFair == SpecSync /\ WF_vars(SyncNext)

-----------------------------------------------------------------------------
(* Properties of the poller *)

\* C1: the first successful poll of a Source returns an empty delta whatever
\* the listing holds, and the snapshot is then the full candidate set
C1_FirstPollBaseline ==
    (ret.kind = "ok" /\ ret.first) => (ret.res = {} /\ data = ret.answer)

\* C2: every successful poll after the first returns exactly the candidate
\* set minus the snapshot the Source had before the poll, whatever that
\* snapshot was, and the snapshot is then the candidate set
C2_LaterPollDelta ==
    (ret.kind = "ok" /\ ~ret.first) =>
        (ret.res = ret.answer \ ret.before /\ data = ret.answer)

\* C3: when two consecutive successful polls observe the same candidate set,
\* the second returns an empty delta and leaves the snapshot unchanged
C3_Idempotent ==
    (ret.kind = "ok" /\ ~ret.first /\ ret.answer = ret.prevAnswer) =>
        (ret.res = {} /\ data = ret.before)

C3_Witness ==
    /\ ret.kind = "ok" /\ ~ret.first
    /\ ret.answer = ret.prevAnswer
    /\ Cardinality(ret.answer) >= 2

\* the top-level names the Source's filter rejects
FailingTop ==
    { x \in { TrimEndSlash(r) : r \in TopRaw } : ~PassesFilter(src.filter, x) }

\* C4: the filter acts on top-level names before recursion and diffing: no
\* sub-listing is fetched for a top-level entry failing the filter, and no
\* delta, candidate set or snapshot holds that entry or "<entry>/<sub>",
\* even when <sub> contains the filter string
C4_FilterBeforeRecursion ==
    src.filter.some =>
        \A e \in FailingTop :
            /\ e \notin DOMAIN poll.tasks
            /\ e \notin orphans
            /\ \A S \in {data, ret.res, ret.answer, poll.outputs} :
                 /\ e \notin S
                 /\ \A x \in SubRaw : Slash(e, x) \notin S

C4_Witness ==
    /\ src.filter.some /\ src.query_subdirs
    /\ ret.kind = "ok" /\ ret.dropped /\ ~ret.first
    /\ \E x \in SubRaw : Contains(x, src.filter.val) /\
          \E c \in { TrimEndSlash(r) : r \in TopRaw } : Slash(c, x) \in ret.res

-----------------------------------------------------------------------------
(* Properties of the command handler *)

Commands == {"!ping", "!leave", "!watch"}

\* C5: whenever no command is being handled (and no reply, leave or write of
\* a handler has failed), the registry is exactly the set of joined channels
\* that received a !watch from a trusted actor and no !leave after it,
\* however the main loop's ticks interleave
C5_RegistryExact ==
    (h.pc = "idle" /\ ~failed) => rooms = expected

\* C6: the registry never contains a channel that a command handler has made
\* the agent leave
C6_NoLeftRoomWatched ==
    \A r \in Rooms : roomState[r] = "left" => r \notin rooms

\* C7: with an empty allow-list every sender's !ping, !watch and !leave in a
\* joined channel is processed (the agent's own messages under self-echo
\* suppression aside); with a non-empty allow-list no handler acts for a
\* sender outside it: no reply, no registry change, no persist, no leave
C7_AccessControl ==
    /\ (/\ cfg.allow = {}
        /\ h.body \in Commands
        /\ roomState[h.room] = "joined"
        /\ ~(cfg.ignore_own_messages /\ h.sender = Bot))
          => h.pc # "idle"
    /\ (cfg.allow # {} /\ h.sender \notin cfg.allow) => h.pc = "idle"

-----------------------------------------------------------------------------
(* Properties of the invitation handler *)

RECURSIVE Pow2(_)
Pow2(n) == IF n = 0 THEN 1 ELSE 2 * Pow2(n - 1)

\* the branch the invitation policy asks for
Policy(u) == IF cfg.allow = {} \/ u \in cfg.allow THEN "join" ELSE "reject"

\* C8 as claimed: every invitation addressed to the agent is answered by a
\* join chain if the allow-list is empty or holds the inviter, and by a
\* reject chain otherwise
C8_EveryInvitationDecided ==
    \A r \in Rooms :
        task[r].pc # "none" => task[r].kind = Policy(task[r].inviter)

\* C8 as amended: with autojoin enabled every invitation addressed to the
\* agent is answered by a join chain if the allow-list is empty or holds the
\* inviter, and by a reject chain (never a join) otherwise; with autojoin
\* disabled no invitation is answered at all
C8_InvitationPolicy ==
    \A r \in Rooms :
        task[r].pc # "none" =>
            IF cfg.autojoin
                THEN /\ task[r].kind = Policy(task[r].inviter)
                     /\ task[r].pc \in {"try", "sleep", "done"}
                     /\ (roomState[r] = "joined" => task[r].kind = "join")
                ELSE task[r].kind = "none" /\ roomState[r] = "invited"

C8_Witness ==
    /\ cfg.allow # {}
    /\ \E r1, r2 \in Rooms :
         /\ task[r1].kind = "join" /\ task[r1].outcome = "ok"
         /\ roomState[r1] = "joined"
         /\ task[r2].kind = "reject" /\ task[r2].outcome = "ok"
         /\ task[r2].inviter \notin cfg.allow

\* C9: in the accept and in the reject chain the k-th delay slept is 2^k
\* seconds, whatever the error; the chain goes on while the next delay is at
\* most 3600 and is given up as soon as it would exceed 3600, so the number
\* of attempts is bounded
C9_BackoffSequence ==
    \A r \in Rooms :
        LET t == task[r] IN
        t.kind # "none" =>
            /\ t.delay = Pow2(t.n + 1)
            /\ (t.n > 0 => t.last = Pow2(t.n) /\ t.last <= BackoffCap)
            /\ (t.pc \in {"try", "sleep"} => t.delay <= BackoffCap)
            /\ (t.outcome = "gaveup" <=>
                    (t.pc = "done" /\ t.delay > BackoffCap))

C9_Witness ==
    \E r1, r2 \in Rooms :
        /\ task[r1].kind = "join" /\ task[r1].outcome = "gaveup"
        /\ task[r2].kind = "reject" /\ task[r2].outcome = "gaveup"

\* C10 as claimed: the delays of one chain add up to at most 3600 seconds
C10_TotalSleepCapped ==
    \A r \in Rooms : task[r].slept <= BackoffCap

\* the sum 2 + 4 + ... + 2048 of the delays of a chain that is given up
MaxTotalSleep == Pow2(12) - 2

\* C10 as amended: the delays of one chain add up to at most 4094 seconds
\* (2 + 4 + ... + 2048); 3600 bounds each single delay, not their sum
C10_TotalSleepBound ==
    \A r \in Rooms :
        /\ task[r].slept <= MaxTotalSleep
        /\ task[r].last <= BackoffCap

C10_Witness ==
    \E r \in Rooms :
        task[r].outcome = "gaveup" /\ task[r].slept = MaxTotalSleep

\* C24: a poll that fails leaves the snapshot as the last successful poll
\* left it (empty if there was none), and the successful poll that follows
\* a failed one returns every candidate that the last successful poll did
\* not see
C24_FailedPollKeepsSnapshot ==
    /\ ret.kind = "err" =>
           data = (IF ret.seen THEN ret.lastAnswer ELSE {})
    /\ (ret.kind = "ok" /\ ret.afterFail /\ ~ret.first) =>
           ret.res = ret.answer \ ret.prevAnswer

\* C21: when a poll has returned, with a delta or with an error, no
\* sub-listing fetch it spawned is still running, and a poll that returned
\* an error returned no candidates
C21_JoinedBeforeReturn ==
    /\ orphans = {}
    /\ ret.kind = "err" => (ret.res = {} /\ ret.answer = {})

-----------------------------------------------------------------------------
(* Properties of the main loop *)

\* C11: a poll failure of one Source does not abort the tick or the process:
\* after it the loop is at the next Source of the tick or in the sleep that
\* precedes the next tick
C11_PollFailureIsolated ==
    main.err = "poll" => main.pc \in {"poll", "sleep"}

\* the fan-out for one delta has come to its end
FanOutOver ==
    \/ main.pc = "send" /\ main.roomids = {}
    \/ main.pc = "exited" /\ main.err = "send"

\* C12: a non-empty delta is sent to exactly the rooms of the registry copy
\* that are joined when their turn comes: room.send is called for no room
\* outside the copy and for no room the bot never joined, and when the
\* fan-out is over it has been called for every joined room of the copy;
\* outside a fan-out (empty delta included) nothing is sent
C12_FanOutExact ==
    /\ main.sent \subseteq main.snap
    /\ \A r \in main.sent : roomState[r] # "none"
    /\ main.pc \in {"poll", "sleep"} => main.sent = {}
    /\ FanOutOver => \A r \in main.snap \ main.sent : roomState[r] # "joined"

\* C13: a room whose !watch was handled before the tick began, and that was
\* neither left nor told to !leave since, is sent every non-empty delta of
\* the tick: when a fan-out is over, room.send has been called for it
C13_WatchedByNextTick ==
    FanOutOver =>
        \A r \in main.atWake :
            (r \in expected /\ roomState[r] = "joined") => r \in main.sent

\* C19: !leave removes the room from the registry before it leaves it: when
\* the handler is about to call room.leave(), or has called it, the room is
\* no longer in the registry
C19_RemoveBeforeLeave ==
    (h.body = "!leave" /\ h.pc \in {"leave", "left"}) => h.room \notin rooms

-----------------------------------------------------------------------------
(* Properties of login_and_sync *)

\* C14: after sync_once failed with an invalid or missing token, whatever the
\* session backend, the next sync_once is issued only when the persisted
\* session and the store directory have been wiped, the client has been
\* rebuilt without the old session, a fresh login has been made, and
\* sync_settings carries no token
C14_ReauthWipesAll ==
    (build = "modules" /\ sync.pc = "fetch" /\ sync.reauth) =>
        /\ store = NoSession
        /\ db \in {"absent", "fresh"}
        /\ sync.rebuilt /\ sync.relogin /\ sync.cred = "new"
        /\ sync.logged_in
        /\ sync.token = "none"

\* login_and_sync is past the catch-up loop
Streaming == sync.pc \in {"register", "streaming"}

\* C15: with a Plain or SecretService backend, login_and_sync is past its
\* catch-up loop only when the persisted session holds the token the
\* successful sync_once returned together with the client's session
C15_PersistBeforeStreaming ==
    (build = "modules" /\ backend # "Ephemeral" /\ Streaming) =>
        /\ sync.token = "t1"
        /\ store = [cred |-> sync.cred, token |-> "t1"]
        /\ sync.cred # "none"

C15_Witness ==
    /\ build = "modules" /\ backend = "SecretService"
    /\ sync.pc = "streaming" /\ sync.stream = "running"
    /\ sync.rebuilt /\ sync.cred = "new"

\* C16: a failed write of the session after a successful sync_once is not
\* fatal: login_and_sync goes on to register the handlers and to stream
C16_PersistFailureNotFatal ==
    sync.cause = "persist" => Streaming

\* C17: when the sync stream has ended on an invalid token, the stream
\* eventually runs again
C17_StreamReauth ==
    (sync.streamErr = "token") ~> (sync.stream = "running")

\* C18: when a login call has failed, login_and_sync has returned the error:
\* no login and no sync_once can follow, no handler is registered and no
\* stream is spawned
C18_LoginFailureFatal ==
    sync.loginErr =>
        /\ sync.pc = "failed"
        /\ ~ENABLED SyncLogin
        /\ ~ENABLED SyncFetch
        /\ sync.handlers = {} /\ sync.stream = "off"

C18_Witness ==
    /\ sync.loginErr
    /\ sync.last \in {"forbidden", "token"}

\* C22: handlers are registered and the stream is spawned only after a
\* successful sync_once, the stream starts from the token that sync_once
\* returned, nothing is handed to a handler before that, and no event of a
\* catch-up response or from before the stream's token is ever handed to a
\* handler
C22_HandlersAfterCatchUp ==
    /\ (sync.handlers # {} \/ sync.stream # "off") =>
           (sync.last = "ok" /\ sync.token = "t1" /\ sync.from = "t1")
    /\ sync.stream = "off" => (sync.handlers = {} /\ sync.dispatched = 0)
    /\ ~sync.early

C22_Witness ==
    /\ backend = "Plain" /\ sync.cred = "old"
    /\ sync.stream = "running"
    /\ sync.dispatched = MaxDispatch

\* what a retry of sync_once must leave alone
SyncCore ==
    <<sync.logged_in, sync.cred, sync.token, sync.rebuilt, sync.relogin,
      sync.handlers, sync.stream, store, db, file>>

-----------------------------------------------------------------------------
(* Further properties of on_stripped_state_member *)

\* C25: a task has printed "Successfully joined room" only if one of its
\* join attempts succeeded; a chain that was given up has printed no success
C25_SuccessOnlyWhenJoined ==
    \A r \in Rooms :
        task[r].said = "joined" =>
            (task[r].kind = "join" /\ task[r].outcome = "ok")

-----------------------------------------------------------------------------
(* Properties of the registry cache and of the registry lock *)

====
